---- MODULE Spec2Model ----
(***************************************************************************)
(* The in-memory wallet of the test harness (package memwallet): the       *)
(* update queue filled by IngestBlock, the chainSyncer goroutine that      *)
(* applies queued blocks to the utxo set, UnwindBlock, address issuance,   *)
(* output locking and the balance / listing reads, with both of the        *)
(* wallet's locks (chainMtx and the embedded sync.RWMutex).                 *)
(***************************************************************************)
EXTENDS Integers, Sequences, FiniteSets, Bags, TLC

(***************************************************************************)
(* Bounds of the model.                                                    *)
(***************************************************************************)
\* Caller / dispatch threads that run the wallet's methods concurrently.
NumThreads == 2
\* IngestBlock calls in one run.
MaxUpdates == 2
\* Block heights the node may announce: 1..MaxHeight.
MaxHeight == 2
\* The highest key index NewAddress may issue.
MaxIndex == 1

\* wallet.net.CoinbaseMaturity(): blocks before a coinbase output is mature.
CoinbaseMaturity == 1

Threads == 1..NumThreads
Heights == 1..MaxHeight
KeyIndexes == 0..MaxIndex

(***************************************************************************)
(* Go maps are functions on a finite domain.                               *)
(***************************************************************************)
EmptyMap == [x \in {} |-> x]

MapPut(m, k, v) == [x \in (DOMAIN m) \cup {k} |-> IF x = k THEN v ELSE m[x]]

MapDelete(m, k) == [x \in (DOMAIN m) \ {k} |-> m[x]]

Range(s) == {s[i] : i \in DOMAIN s}

(***************************************************************************)
(* Keys and addresses.  An address is known by the pkHash its              *)
(* ScriptAddress() returns; a pkScript is known by the pkHashes that       *)
(* bytes.Contains finds in it.                                             *)
(***************************************************************************)
keyToAddr(index) == [pkHash |-> <<"pkh", index>>]

ScriptAddress(addr) == addr.pkHash

(***************************************************************************)
(* The transactions the node may relay.  Tx1 is a coinbase paying key 0;   *)
(* Tx2 spends that output, pays an output whose script holds the pkHashes  *)
(* of keys 0 and 1 and a second output to a foreign script.                *)
(***************************************************************************)
OutPoint(hash, index) == [Hash |-> hash, Index |-> index]

NullOutPoint == OutPoint("zero", 0)

Tx1 ==
    [TxHash |-> "tx1", isCoinbase |-> TRUE,
     TxIn |-> <<[PreviousOutPoint |-> NullOutPoint]>>,
     TxOut |-> <<[Amount |-> 5, PkScript |-> {<<"pkh", 0>>}]>>]

Tx2 ==
    [TxHash |-> "tx2", isCoinbase |-> FALSE,
     TxIn |-> <<[PreviousOutPoint |-> OutPoint("tx1", 0)]>>,
     TxOut |-> <<[Amount |-> 3, PkScript |-> {<<"pkh", 0>>, <<"pkh", 1>>}],
                 [Amount |-> 1, PkScript |-> {<<"pkh", 99>>}]>>]

Transactions == {Tx1, Tx2}

\* The outpoints of the outputs that pay a key the wallet may come to hold.
OwnableOutPoints ==
    UNION {{OutPoint(tx.TxHash, i - 1) :
                i \in {j \in DOMAIN tx.TxOut :
                          \E k \in KeyIndexes :
                              ScriptAddress(keyToAddr(k)) \in tx.TxOut[j].PkScript}} :
           tx \in Transactions}

\* The filteredTxns of one block: distinct transactions, none placed before
\* a transaction whose output it spends.
SpendsFrom(a, b) ==
    \E i \in DOMAIN a.TxIn : a.TxIn[i].PreviousOutPoint.Hash = b.TxHash

Blocks ==
    {b \in UNION {[1..n -> Transactions] : n \in 0..Cardinality(Transactions)} :
        \A i, j \in DOMAIN b :
            i < j => (b[i] # b[j] /\ ~SpendsFrom(b[i], b[j]))}

\* chainUpdate{height, txns}
ChainUpdates ==
    {[blockHeight |-> h, filteredTxns |-> b] : h \in Heights, b \in Blocks}

(***************************************************************************)
(* State.                                                                  *)
(***************************************************************************)
VARIABLES
    currentHeight,      \* wallet.currentHeight
    hdIndex,            \* wallet.hdIndex
    addrs,              \* wallet.addrs: key index -> address
    utxos,              \* wallet.utxos: outpoint -> utxo
    reorgJournal,       \* wallet.reorgJournal: height -> undoEntry
    chainUpdates,       \* wallet.chainUpdates
    chainUpdateSignal,  \* goroutines blocked sending on the channel
    chainMtx,           \* holder of wallet.chainMtx
    rwMutex,            \* the embedded sync.RWMutex: writer and readers
    nodeRPC,            \* wallet.nodeRPC # nil
    chainSyncer,        \* the chainSyncer goroutine: position and locals
    pc,                 \* position of each caller thread
    arg,                \* argument of the call a thread is in
    ret,                \* value a read has computed
    fault,              \* the panic that ended the process, if any
    enqueuedLog,        \* history: the updates appended, in order
    appliedLog,         \* history: the updates applied, in order
    snap,               \* history: the ledger before the latest apply
    released,           \* history: the outputs the latest UnlockOutputs unlocked
    solve               \* one call of solveBlock: its channels and goroutines

ledger == <<currentHeight, utxos, reorgJournal>>
keys == <<hdIndex, addrs>>
queue == <<chainUpdates, chainUpdateSignal, chainMtx>>
history == <<enqueuedLog, appliedLog, snap, released>>
vars ==
    <<currentHeight, hdIndex, addrs, utxos, reorgJournal, chainUpdates,
      chainUpdateSignal, chainMtx, rwMutex, nodeRPC, chainSyncer, pc, arg,
      ret, fault, enqueuedLog, appliedLog, snap, released, solve>>

\* The state of the wallet alone.
walletVars ==
    <<currentHeight, hdIndex, addrs, utxos, reorgJournal, chainUpdates,
      chainUpdateSignal, chainMtx, rwMutex, nodeRPC, chainSyncer, pc, arg,
      ret, fault, enqueuedLog, appliedLog, snap, released>>

NoHolder == <<"free">>

Thread(t) == <<"thread", t>>

Syncer == <<"chainSyncer">>

EmptyUndo == [utxosCreated |-> <<>>, utxosDestroyed |-> EmptyMap]

NoFault == "none"
NoArg == [height |-> 0, inputs |-> {}, undo |-> EmptyUndo]
NoRet == [value |-> 0, list |-> EmptyBag, err |-> FALSE]

NoUpdate == [blockHeight |-> 0, filteredTxns |-> <<>>]

\* snap.phase: "applied" once chainSyncer has taken the lock for a block,
\* "unwound" once UnwindBlock has reversed that block with no other change
\* of the utxo set in between, "none" otherwise.
NoSnap ==
    [phase |-> "none", blockHeight |-> 0, utxos |-> EmptyMap,
     currentHeight |-> 0, spent |-> EmptyMap]

\* The wallet as constructed and started: the coinbase key is key 0, no
\* block seen yet, chainSyncer waiting on chainUpdateSignal.
WalletInit ==
    /\ currentHeight = 0
    /\ hdIndex = 1
    /\ addrs = [i \in {0} |-> keyToAddr(i)]
    /\ utxos = EmptyMap
    /\ reorgJournal = EmptyMap
    /\ chainUpdates = <<>>
    /\ chainUpdateSignal = [work |-> 0, stop |-> 0]
    /\ chainMtx = NoHolder
    /\ rwMutex = [writer |-> NoHolder, readers |-> {}]
    /\ nodeRPC = TRUE
    /\ chainSyncer = [pc |-> "recv", update |-> NoUpdate, undo |-> EmptyUndo, tx |-> 1]
    /\ pc = [t \in Threads |-> "idle"]
    /\ arg = [t \in Threads |-> NoArg]
    /\ ret = [t \in Threads |-> NoRet]
    /\ fault = NoFault
    /\ enqueuedLog = <<>>
    /\ appliedLog = <<>>
    /\ snap = NoSnap
    /\ released = {}

\* No call of solveBlock is in progress.
NoSolve == [main |-> "idle"]

Init == WalletInit /\ solve = NoSolve

\* A panic in any goroutine ends the process.
Running == fault = NoFault

(***************************************************************************)
(* The two locks.                                                          *)
(***************************************************************************)
\* A read lock that does not wait for the writer.
RLockUnguarded == TRUE

\* wallet.RLock() returns: no writer holds the lock.
RLockAvailable == rwMutex.writer = NoHolder

\* wallet.Lock() returns: neither a writer nor a reader holds the lock.
LockAvailable == rwMutex.writer = NoHolder /\ rwMutex.readers = {}

Locked(holder) == [rwMutex EXCEPT !.writer = holder]

Unlocked == [rwMutex EXCEPT !.writer = NoHolder]

(***************************************************************************)
(* IngestBlock: append the update under chainMtx, then start a goroutine   *)
(* that sends the work signal.                                             *)
(***************************************************************************)
\* An update queue lock that is only granted while the ledger lock is free.
chainMtxBehindLedger ==
    chainMtx = NoHolder /\ rwMutex.writer = NoHolder /\ rwMutex.readers = {}

\* m.chainMtx.Lock() returns: nobody holds the queue lock.
chainMtxAvailable == chainMtx = NoHolder

\* An unlock of the queue lock that leaves it with its holder.
chainMtxUnlockSkipped(holder) == holder

\* m.chainMtx.Unlock()
chainMtxUnlock(holder) == NoHolder

IngestBlock_Lock(t) ==
    /\ Running
    /\ UNCHANGED solve
    /\ pc[t] = "idle"
    /\ Len(enqueuedLog) + Cardinality({u \in Threads : pc[u] = "IngestBlock_append"}) < MaxUpdates
    /\ chainMtxAvailable
    /\ chainMtx' = Thread(t)
    /\ pc' = [pc EXCEPT ![t] = "IngestBlock_append"]
    /\ UNCHANGED <<ledger, keys, chainUpdates, chainUpdateSignal, rwMutex, nodeRPC,
                   chainSyncer, arg, ret, fault, history>>

IngestBlock_Append(t) ==
    /\ Running
    /\ UNCHANGED solve
    /\ pc[t] = "IngestBlock_append"
    /\ \E update \in ChainUpdates :
        /\ chainUpdates' = Append(chainUpdates, update)
        /\ enqueuedLog' = Append(enqueuedLog, [update |-> update, by |-> t])
    /\ chainMtx' = chainMtxUnlock(Thread(t))
    /\ pc' = [pc EXCEPT ![t] = "IngestBlock_signal"]
    /\ UNCHANGED <<ledger, keys, chainUpdateSignal, rwMutex, nodeRPC, chainSyncer,
                   arg, ret, fault, appliedLog, snap, released>>

IngestBlock_Signal(t) ==
    /\ Running
    /\ UNCHANGED solve
    /\ pc[t] = "IngestBlock_signal"
    /\ chainUpdateSignal' = [chainUpdateSignal EXCEPT !.work = @ + 1]
    /\ pc' = [pc EXCEPT ![t] = "idle"]
    /\ UNCHANGED <<ledger, keys, chainUpdates, chainMtx, rwMutex, nodeRPC,
                   chainSyncer, arg, ret, fault, history>>

(***************************************************************************)
(* chainSyncer.                                                            *)
(***************************************************************************)
\* A loop that treats the stop signal as a work signal.
AfterSignalNoBreak(s) == "lockQueue"

\* if s == stopSignal { break }
AfterSignal(s) == IF s = "stop" THEN "done" ELSE "lockQueue"

\* for s := range wallet.chainUpdateSignal: any blocked sender may be the
\* one whose value is received.
chainSyncer_Recv ==
    /\ Running
    /\ UNCHANGED solve
    /\ chainSyncer.pc = "recv"
    /\ \/ /\ chainUpdateSignal.stop > 0
          /\ chainUpdateSignal' = [chainUpdateSignal EXCEPT !.stop = @ - 1]
          /\ chainSyncer' = [chainSyncer EXCEPT !.pc = AfterSignal("stop")]
       \/ /\ chainUpdateSignal.work > 0
          /\ chainUpdateSignal' = [chainUpdateSignal EXCEPT !.work = @ - 1]
          /\ chainSyncer' = [chainSyncer EXCEPT !.pc = AfterSignal("work")]
    /\ UNCHANGED <<ledger, keys, chainUpdates, chainMtx, rwMutex, nodeRPC, pc,
                   arg, ret, fault, history>>

chainSyncer_LockQueue ==
    /\ Running
    /\ UNCHANGED solve
    /\ chainSyncer.pc = "lockQueue"
    /\ chainMtxAvailable
    /\ chainMtx' = Syncer
    /\ chainSyncer' = [chainSyncer EXCEPT !.pc = "pop"]
    /\ UNCHANGED <<ledger, keys, chainUpdates, chainUpdateSignal, rwMutex, nodeRPC,
                   pc, arg, ret, fault, history>>

\* A pop that drops everything queued behind the head.
DequeueAll(q) == [update |-> Head(q), rest |-> <<>>]

\* A pop that leaves the update in the queue.
DequeueKept(q) == [update |-> Head(q), rest |-> q]

\* A queue served from its newest end.
DequeueLast(q) == [update |-> q[Len(q)], rest |-> SubSeq(q, 1, Len(q) - 1)]

\* update = chainUpdates[0]; chainUpdates = chainUpdates[1:]
Dequeue(q) == [update |-> Head(q), rest |-> Tail(q)]

chainSyncer_Pop ==
    /\ Running
    /\ UNCHANGED solve
    /\ chainSyncer.pc = "pop"
    /\ IF chainUpdates = <<>>
       THEN /\ fault' = "chainSyncer: index out of range"
            /\ UNCHANGED <<chainUpdates, chainMtx, chainSyncer>>
       ELSE /\ chainUpdates' = Dequeue(chainUpdates).rest
            /\ chainSyncer' = [chainSyncer EXCEPT !.pc = "lock",
                                                  !.update = Dequeue(chainUpdates).update]
            /\ chainMtx' = chainMtxUnlock(Syncer)
            /\ UNCHANGED fault
    /\ UNCHANGED <<ledger, keys, chainUpdateSignal, rwMutex, nodeRPC, pc, arg, ret,
                   history>>

\* A height that only moves to the next height and otherwise stays.
SyncedToNextOnly(height, update) ==
    IF update.blockHeight = height + 1 THEN update.blockHeight ELSE height

\* wallet.currentHeight = update.blockHeight
SyncedTo(height, update) == update.blockHeight

\* wallet.Lock(); wallet.currentHeight = update.blockHeight; undo := &undoEntry{}
chainSyncer_Lock ==
    /\ Running
    /\ UNCHANGED solve
    /\ chainSyncer.pc = "lock"
    /\ LockAvailable
    /\ rwMutex' = Locked(Syncer)
    /\ currentHeight' = SyncedTo(currentHeight, chainSyncer.update)
    /\ chainSyncer' = [chainSyncer EXCEPT !.pc = "apply", !.undo = EmptyUndo, !.tx = 1]
    /\ appliedLog' = Append(appliedLog,
                            [update |-> chainSyncer.update, addrs |-> addrs, live |-> TRUE])
    /\ snap' = [phase |-> "applied", blockHeight |-> chainSyncer.update.blockHeight,
                utxos |-> utxos, currentHeight |-> currentHeight, spent |-> EmptyMap]
    /\ UNCHANGED <<utxos, reorgJournal, keys, queue, nodeRPC, pc, arg, ret, fault,
                   enqueuedLog, released>>

\* The key indexes whose address the script pays.
Matching(output) ==
    {k \in DOMAIN addrs : ScriptAddress(addrs[k]) \in output.PkScript}

\* The map iteration of evalOutputs visits the addresses in any order: the
\* utxo it leaves holds the key index of the matching address visited last.
KeyChoices(outputs) ==
    {ks \in [DOMAIN outputs -> KeyIndexes] :
        \A i \in DOMAIN outputs :
            IF Matching(outputs[i]) = {} THEN ks[i] = 0
            ELSE ks[i] \in Matching(outputs[i])}

Repeat(x, n) == [j \in 1..n |-> x]

RECURSIVE evalOutputs(_, _, _, _, _, _)
evalOutputs(w, outputs, txHash, isCoinbase, ks, i) ==
    IF i > Len(outputs) THEN w
    ELSE LET output == outputs[i]
             n == Cardinality(Matching(output))
             maturityHeight ==
                 IF isCoinbase THEN currentHeight + CoinbaseMaturity ELSE 0
             op == OutPoint(txHash, i - 1)
             new == [value |-> output.Amount, keyIndex |-> ks[i],
                     maturityHeight |-> maturityHeight,
                     pkScript |-> output.PkScript, isLocked |-> FALSE]
             next ==
                 IF n = 0 THEN w
                 ELSE [utxos |-> MapPut(w.utxos, op, new),
                       undo |-> [w.undo EXCEPT
                                   !.utxosCreated = @ \o Repeat(op, n)]]
         IN evalOutputs(next, outputs, txHash, isCoinbase, ks, i + 1)

\* An input step that records an unknown outpoint as destroyed, with the
\* zero utxo.
evalInputRecordAll(w, op) ==
    [utxos |-> MapDelete(w.utxos, op),
     undo |-> [w.undo EXCEPT
                 !.utxosDestroyed =
                     MapPut(@, op,
                            IF op \in DOMAIN w.utxos THEN w.utxos[op]
                            ELSE [value |-> 0, keyIndex |-> 0,
                                  maturityHeight |-> 0, pkScript |-> {},
                                  isLocked |-> FALSE])]]

\* oldUtxo, ok := wallet.utxos[op]; if !ok { continue }
\* undo.utxosDestroyed[op] = oldUtxo; delete(wallet.utxos, op)
evalInput(w, op) ==
    IF op \notin DOMAIN w.utxos THEN w
    ELSE [utxos |-> MapDelete(w.utxos, op),
          undo |-> [w.undo EXCEPT
                      !.utxosDestroyed = MapPut(@, op, w.utxos[op])]]

RECURSIVE evalInputs(_, _, _)
evalInputs(w, inputs, i) ==
    IF i > Len(inputs) THEN w
    ELSE evalInputs(evalInput(w, inputs[i].PreviousOutPoint), inputs, i + 1)

\* One turn of: for _, tx := range update.filteredTxns
chainSyncer_EvalTx ==
    /\ Running
    /\ UNCHANGED solve
    /\ chainSyncer.pc = "apply"
    /\ chainSyncer.tx <= Len(chainSyncer.update.filteredTxns)
    /\ LET mtx == chainSyncer.update.filteredTxns[chainSyncer.tx]
           spentNow == {mtx.TxIn[i].PreviousOutPoint : i \in DOMAIN mtx.TxIn}
                           \cap DOMAIN utxos
       IN /\ \E ks \in KeyChoices(mtx.TxOut) :
                LET w0 == [utxos |-> utxos, undo |-> chainSyncer.undo]
                    w1 == evalOutputs(w0, mtx.TxOut, mtx.TxHash, mtx.isCoinbase, ks, 1)
                    w2 == evalInputs(w1, mtx.TxIn, 1)
                IN /\ utxos' = w2.utxos
                   /\ chainSyncer' = [chainSyncer EXCEPT !.undo = w2.undo, !.tx = @ + 1]
          /\ snap' = [snap EXCEPT !.spent =
                        [o \in (DOMAIN @) \cup spentNow |->
                            IF o \in spentNow THEN utxos[o] ELSE @[o]]]
    /\ UNCHANGED <<currentHeight, reorgJournal, keys, queue, rwMutex, nodeRPC, pc,
                   arg, ret, fault, enqueuedLog, appliedLog, released>>

\* wallet.reorgJournal[update.blockHeight] = undo; wallet.Unlock()
StoreUndo(journal, height, undo) == MapPut(journal, height, undo)

chainSyncer_Store ==
    /\ Running
    /\ UNCHANGED solve
    /\ chainSyncer.pc = "apply"
    /\ chainSyncer.tx > Len(chainSyncer.update.filteredTxns)
    /\ reorgJournal' = StoreUndo(reorgJournal, chainSyncer.update.blockHeight,
                                 chainSyncer.undo)
    /\ rwMutex' = Unlocked
    /\ chainSyncer' = [chainSyncer EXCEPT !.pc = "recv", !.update = NoUpdate,
                                          !.undo = EmptyUndo, !.tx = 1]
    /\ UNCHANGED <<currentHeight, utxos, keys, queue, nodeRPC, pc, arg, ret, fault,
                   history>>

(***************************************************************************)
(* UnwindBlock.                                                            *)
(***************************************************************************)
UnwindBlock_Lock(t) ==
    /\ Running
    /\ UNCHANGED solve
    /\ pc[t] = "idle"
    /\ LockAvailable
    /\ rwMutex' = Locked(Thread(t))
    /\ \E height \in Heights : arg' = [arg EXCEPT ![t] = [NoArg EXCEPT !.height = height]]
    /\ pc' = [pc EXCEPT ![t] = "UnwindBlock_locked"]
    /\ UNCHANGED <<ledger, keys, queue, nodeRPC, chainSyncer, ret, fault, history>>

\* undo := m.reorgJournal[height]: the nil pointer when the map has no entry.
Nil == [nil |-> TRUE]

\* A lookup that answers a missing height with an empty undo entry.
LookupUndoOrEmpty(journal, height) ==
    IF height \in DOMAIN journal THEN journal[height]
    ELSE [utxosCreated |-> <<>>, utxosDestroyed |-> [x \in {} |-> x]]

LookupUndo(journal, height) ==
    IF height \in DOMAIN journal THEN journal[height] ELSE Nil

\* for _, utxo := range undo.utxosCreated { delete(m.utxos, utxo) }
DeleteCreated(u, created) ==
    [op \in (DOMAIN u) \ Range(created) |-> u[op]]

\* Reading undo.utxosCreated through a nil undo panics; the deferred Unlock
\* runs and the panic ends the process.
UnwindBlock_Created(t) ==
    /\ Running
    /\ UNCHANGED solve
    /\ pc[t] = "UnwindBlock_locked"
    /\ LET undo == LookupUndo(reorgJournal, arg[t].height)
       IN IF undo = Nil
          THEN /\ fault' = "UnwindBlock: nil pointer dereference"
               /\ rwMutex' = Unlocked
               /\ pc' = [pc EXCEPT ![t] = "panicked"]
               /\ UNCHANGED <<utxos, arg, appliedLog, snap>>
          ELSE /\ utxos' = DeleteCreated(utxos, undo.utxosCreated)
               /\ pc' = [pc EXCEPT ![t] = "UnwindBlock_restore"]
               /\ arg' = [arg EXCEPT ![t].undo = undo]
               /\ appliedLog' =
                    [i \in DOMAIN appliedLog |->
                        IF appliedLog[i].update.blockHeight = arg[t].height
                        THEN [appliedLog[i] EXCEPT !.live = FALSE]
                        ELSE appliedLog[i]]
               /\ snap' = IF snap.phase = "applied" /\ snap.blockHeight = arg[t].height
                          THEN snap ELSE NoSnap
               /\ UNCHANGED <<rwMutex, fault>>
    /\ UNCHANGED <<currentHeight, reorgJournal, keys, queue, nodeRPC, chainSyncer,
                   ret, enqueuedLog, released>>

\* A restore that reinserts the spent outputs as freshly created records.
RestoreDestroyedAsNew(u, destroyed) ==
    [op \in (DOMAIN u) \cup (DOMAIN destroyed) |->
        IF op \in DOMAIN destroyed
        THEN [destroyed[op] EXCEPT !.maturityHeight = 0]
        ELSE u[op]]

\* for outPoint, utxo := range undo.utxosDestroyed { m.utxos[outPoint] = utxo }
RestoreDestroyed(u, destroyed) ==
    [op \in (DOMAIN u) \cup (DOMAIN destroyed) |->
        IF op \in DOMAIN destroyed THEN destroyed[op] ELSE u[op]]

\* An unwind that leaves the undo entry in the journal.
DeleteUndoKept(journal, height) == journal

\* delete(m.reorgJournal, height)
DeleteUndo(journal, height) == MapDelete(journal, height)

UnwindBlock_Restore(t) ==
    /\ Running
    /\ UNCHANGED solve
    /\ pc[t] = "UnwindBlock_restore"
    /\ utxos' = RestoreDestroyed(utxos, arg[t].undo.utxosDestroyed)
    /\ reorgJournal' = DeleteUndo(reorgJournal, arg[t].height)
    /\ rwMutex' = Unlocked
    /\ pc' = [pc EXCEPT ![t] = "idle"]
    /\ arg' = [arg EXCEPT ![t] = NoArg]
    /\ snap' = IF snap.phase = "applied" THEN [snap EXCEPT !.phase = "unwound"]
               ELSE NoSnap
    /\ released' = {}
    /\ UNCHANGED <<currentHeight, keys, queue, nodeRPC, chainSyncer, ret, fault,
                   enqueuedLog, appliedLog>>

(***************************************************************************)
(* The reads.                                                              *)
(***************************************************************************)
\* utxo.isMature(height)
isMature(u, height) == height >= u.maturityHeight

\* A filter that leaves immature outputs in.
SkippedLockedOnly(u, height) == u.isLocked

\* A filter that leaves locked outputs in.
SkippedImmatureOnly(u, height) == ~(height >= u.maturityHeight)

\* if !utxo.isMature(wallet.currentHeight) || utxo.isLocked { continue }
Skipped(u, height) == ~isMature(u, height) \/ u.isLocked

RECURSIVE SumValues(_, _)
SumValues(u, ops) ==
    IF ops = {} THEN 0
    ELSE LET op == CHOOSE x \in ops : TRUE
         IN u[op].value + SumValues(u, ops \ {op})

RECURSIVE BagOfValues(_, _)
BagOfValues(u, ops) ==
    IF ops = {} THEN EmptyBag
    ELSE LET op == CHOOSE x \in ops : TRUE
         IN SetToBag({u[op].value}) (+) BagOfValues(u, ops \ {op})

\* balance.AtomsValue += utxo.value.AtomsValue over the utxos not skipped
GetBalance(u, height) ==
    SumValues(u, {op \in DOMAIN u : ~Skipped(u[op], height)})

\* result = append(result, &Unspent{Amount: utxo.value}) over the utxos not
\* skipped; the map is ranged over in any order, so the result is a bag.
ListUnspent(u, height) ==
    BagOfValues(u, {op \in DOMAIN u : ~Skipped(u[op], height)})

\* wallet.RLock() and the loop over wallet.utxos under it.
GetBalance_RLock(t) ==
    /\ Running
    /\ UNCHANGED solve
    /\ pc[t] = "idle"
    /\ RLockAvailable
    /\ rwMutex' = [rwMutex EXCEPT !.readers = @ \cup {t}]
    /\ ret' = [ret EXCEPT ![t] = [NoRet EXCEPT !.value = GetBalance(utxos, currentHeight)]]
    /\ pc' = [pc EXCEPT ![t] = "GetBalance_read"]
    /\ UNCHANGED <<ledger, keys, queue, nodeRPC, chainSyncer, arg, fault, history>>

\* The deferred wallet.RUnlock() and the return.
GetBalance_RUnlock(t) ==
    /\ Running
    /\ UNCHANGED solve
    /\ pc[t] = "GetBalance_read"
    /\ rwMutex' = [rwMutex EXCEPT !.readers = @ \ {t}]
    /\ ret' = [ret EXCEPT ![t] = NoRet]
    /\ pc' = [pc EXCEPT ![t] = "idle"]
    /\ UNCHANGED <<ledger, keys, queue, nodeRPC, chainSyncer, arg, fault, history>>

\* ListUnspent takes the lock with wallet.Lock().
ListUnspent_Lock(t) ==
    /\ Running
    /\ UNCHANGED solve
    /\ pc[t] = "idle"
    /\ LockAvailable
    /\ rwMutex' = Locked(Thread(t))
    /\ ret' = [ret EXCEPT ![t] = [NoRet EXCEPT !.list = ListUnspent(utxos, currentHeight)]]
    /\ pc' = [pc EXCEPT ![t] = "ListUnspent_read"]
    /\ UNCHANGED <<ledger, keys, queue, nodeRPC, chainSyncer, arg, fault, history>>

ListUnspent_Unlock(t) ==
    /\ Running
    /\ UNCHANGED solve
    /\ pc[t] = "ListUnspent_read"
    /\ rwMutex' = Unlocked
    /\ ret' = [ret EXCEPT ![t] = NoRet]
    /\ pc' = [pc EXCEPT ![t] = "idle"]
    /\ UNCHANGED <<ledger, keys, queue, nodeRPC, chainSyncer, arg, fault, history>>

SyncedHeight_RLock(t) ==
    /\ Running
    /\ UNCHANGED solve
    /\ pc[t] = "idle"
    /\ RLockAvailable
    /\ rwMutex' = [rwMutex EXCEPT !.readers = @ \cup {t}]
    /\ ret' = [ret EXCEPT ![t] = [NoRet EXCEPT !.value = currentHeight]]
    /\ pc' = [pc EXCEPT ![t] = "SyncedHeight_read"]
    /\ UNCHANGED <<ledger, keys, queue, nodeRPC, chainSyncer, arg, fault, history>>

SyncedHeight_RUnlock(t) ==
    /\ Running
    /\ UNCHANGED solve
    /\ pc[t] = "SyncedHeight_read"
    /\ rwMutex' = [rwMutex EXCEPT !.readers = @ \ {t}]
    /\ ret' = [ret EXCEPT ![t] = NoRet]
    /\ pc' = [pc EXCEPT ![t] = "idle"]
    /\ UNCHANGED <<ledger, keys, queue, nodeRPC, chainSyncer, arg, fault, history>>

(***************************************************************************)
(* NewAddress.                                                             *)
(***************************************************************************)
NewAddress_Lock(t) ==
    /\ Running
    /\ UNCHANGED solve
    /\ pc[t] = "idle"
    /\ LockAvailable
    /\ rwMutex' = Locked(Thread(t))
    /\ pc' = [pc EXCEPT ![t] = "NewAddress_locked"]
    /\ UNCHANGED <<ledger, keys, queue, nodeRPC, chainSyncer, arg, ret, fault, history>>

\* A newAddress that advances hdIndex before the filter is loaded.
newAddressEager(index, a, outcome) ==
    IF outcome = "derived"
    THEN [hdIndex |-> index + 1, addrs |-> MapPut(a, index, keyToAddr(index)),
          err |-> FALSE]
    ELSE IF outcome = "filterError"
    THEN [hdIndex |-> index + 1, addrs |-> a, err |-> TRUE]
    ELSE [hdIndex |-> index, addrs |-> a, err |-> TRUE]

\* A newAddress that does not advance hdIndex.
newAddressSameIndex(index, a, outcome) ==
    IF outcome = "derived"
    THEN [hdIndex |-> index, addrs |-> MapPut(a, index, keyToAddr(index)),
          err |-> FALSE]
    ELSE [hdIndex |-> index, addrs |-> a, err |-> TRUE]

\* newAddress: Child, ECPrivKey, keyToAddr or LoadTxFilter may return an
\* error, which is returned before wallet.addrs[index] = addr; wallet.hdIndex++
newAddress(index, a, outcome) ==
    IF outcome = "derived"
    THEN [hdIndex |-> index + 1, addrs |-> MapPut(a, index, keyToAddr(index)),
          err |-> FALSE]
    ELSE [hdIndex |-> index, addrs |-> a, err |-> TRUE]

\* add, err := wallet.newAddress().  LoadTxFilter is called through
\* wallet.nodeRPC, which Stop has set to nil: the call panics and the deferred
\* Unlock runs.
NewAddress_Return(t) ==
    /\ Running
    /\ UNCHANGED solve
    /\ pc[t] = "NewAddress_locked"
    /\ \E outcome \in {"deriveError", "filterError"}
                        \cup (IF hdIndex <= MaxIndex THEN {"derived"} ELSE {}) :
        IF outcome # "deriveError" /\ ~nodeRPC
        THEN /\ fault' = "newAddress: nil pointer dereference"
             /\ rwMutex' = Unlocked
             /\ pc' = [pc EXCEPT ![t] = "panicked"]
             /\ UNCHANGED <<keys, ret>>
        ELSE LET r == newAddress(hdIndex, addrs, outcome)
             IN /\ hdIndex' = r.hdIndex
                /\ addrs' = r.addrs
                /\ ret' = [ret EXCEPT ![t] = [NoRet EXCEPT !.value = hdIndex,
                                                          !.err = r.err]]
                /\ pc' = [pc EXCEPT ![t] = "NewAddress_unlock"]
                /\ UNCHANGED <<rwMutex, fault>>
    /\ UNCHANGED <<ledger, queue, nodeRPC, chainSyncer, arg, history>>

\* The deferred wallet.Unlock() and the return of the address or the error.
NewAddress_Unlock(t) ==
    /\ Running
    /\ UNCHANGED solve
    /\ pc[t] = "NewAddress_unlock"
    /\ rwMutex' = Unlocked
    /\ ret' = [ret EXCEPT ![t] = NoRet]
    /\ pc' = [pc EXCEPT ![t] = "idle"]
    /\ UNCHANGED <<ledger, keys, queue, nodeRPC, chainSyncer, arg, fault, history>>

(***************************************************************************)
(* Sync: poll SyncedHeight until it is at least desiredHeight, then return *)
(* a further SyncedHeight.  A poll that reads a lower height changes        *)
(* nothing and is repeated on the next tick.                               *)
(***************************************************************************)
\* walletHeight := wallet.SyncedHeight(); if walletHeight >= desiredHeight { break }
Sync_Poll(t) ==
    /\ Running
    /\ UNCHANGED solve
    /\ pc[t] = "idle"
    /\ RLockAvailable
    /\ \E desiredHeight \in Heights :
        /\ currentHeight >= desiredHeight
        /\ arg' = [arg EXCEPT ![t] = [NoArg EXCEPT !.height = desiredHeight]]
    /\ pc' = [pc EXCEPT ![t] = "Sync_break"]
    /\ UNCHANGED <<ledger, keys, queue, rwMutex, nodeRPC, chainSyncer, ret, fault,
                   history>>

\* return wallet.SyncedHeight(): wallet.RLock() and the read
Sync_RLock(t) ==
    /\ Running
    /\ UNCHANGED solve
    /\ pc[t] = "Sync_break"
    /\ RLockAvailable
    /\ rwMutex' = [rwMutex EXCEPT !.readers = @ \cup {t}]
    /\ ret' = [ret EXCEPT ![t] = [NoRet EXCEPT !.value = currentHeight]]
    /\ pc' = [pc EXCEPT ![t] = "Sync_read"]
    /\ UNCHANGED <<ledger, keys, queue, nodeRPC, chainSyncer, arg, fault, history>>

\* The deferred wallet.RUnlock() and the return of Sync.
Sync_RUnlock(t) ==
    /\ Running
    /\ UNCHANGED solve
    /\ pc[t] = "Sync_read"
    /\ rwMutex' = [rwMutex EXCEPT !.readers = @ \ {t}]
    /\ ret' = [ret EXCEPT ![t] = NoRet]
    /\ arg' = [arg EXCEPT ![t] = NoArg]
    /\ pc' = [pc EXCEPT ![t] = "idle"]
    /\ UNCHANGED <<ledger, keys, queue, nodeRPC, chainSyncer, fault, history>>

(***************************************************************************)
(* Output locking.                                                         *)
(***************************************************************************)
\* The tail of CreateTransaction: utxo.isLocked = true for the outputs the
\* new transaction spends, chosen among the spendable ones.
SetLocked(u, ops, flag) ==
    [op \in DOMAIN u |-> IF op \in ops THEN [u[op] EXCEPT !.isLocked = flag] ELSE u[op]]

\* A call that finds no spendable output returns an error and locks nothing;
\* only the calls that fund are followed.
CreateTransaction_Lock(t) ==
    /\ Running
    /\ UNCHANGED solve
    /\ pc[t] = "idle"
    /\ LockAvailable
    /\ \E op \in DOMAIN utxos : ~Skipped(utxos[op], currentHeight)
    /\ rwMutex' = Locked(Thread(t))
    /\ pc' = [pc EXCEPT ![t] = "CreateTransaction_locked"]
    /\ UNCHANGED <<ledger, keys, queue, nodeRPC, chainSyncer, arg, ret, fault, history>>

CreateTransaction_Return(t) ==
    /\ Running
    /\ UNCHANGED solve
    /\ pc[t] = "CreateTransaction_locked"
    /\ \E spentOutputs \in SUBSET {op \in DOMAIN utxos : ~Skipped(utxos[op], currentHeight)} :
        /\ spentOutputs # {}
        /\ utxos' = SetLocked(utxos, spentOutputs, TRUE)
    /\ rwMutex' = Unlocked
    /\ pc' = [pc EXCEPT ![t] = "idle"]
    /\ snap' = NoSnap
    /\ released' = {}
    /\ UNCHANGED <<currentHeight, reorgJournal, keys, queue, nodeRPC, chainSyncer,
                   arg, ret, fault, enqueuedLog, appliedLog>>

\* An input that names no utxo of the wallet is skipped, so the inputs are
\* drawn from the outpoints the wallet may hold; a call made while nothing is
\* locked changes nothing and is not followed.
UnlockOutputs_Lock(t) ==
    /\ Running
    /\ UNCHANGED solve
    /\ pc[t] = "idle"
    /\ LockAvailable
    /\ \E op \in DOMAIN utxos : utxos[op].isLocked
    /\ rwMutex' = Locked(Thread(t))
    /\ \E inputs \in SUBSET OwnableOutPoints :
        /\ inputs # {}
        /\ arg' = [arg EXCEPT ![t] = [NoArg EXCEPT !.inputs = inputs]]
    /\ pc' = [pc EXCEPT ![t] = "UnlockOutputs_locked"]
    /\ UNCHANGED <<ledger, keys, queue, nodeRPC, chainSyncer, ret, fault, history>>

\* for _, input := range inputs: the utxo found has isLocked = false
UnlockOutputs_Return(t) ==
    /\ Running
    /\ UNCHANGED solve
    /\ pc[t] = "UnlockOutputs_locked"
    /\ utxos' = SetLocked(utxos, arg[t].inputs \cap DOMAIN utxos, FALSE)
    /\ rwMutex' = Unlocked
    /\ pc' = [pc EXCEPT ![t] = "idle"]
    /\ arg' = [arg EXCEPT ![t] = NoArg]
    /\ snap' = NoSnap
    /\ released' = {op \in arg[t].inputs \cap DOMAIN utxos : utxos[op].isLocked}
    /\ UNCHANGED <<currentHeight, reorgJournal, keys, queue, nodeRPC, chainSyncer,
                   ret, fault, enqueuedLog, appliedLog>>

(***************************************************************************)
(* Stop: a goroutine sends stopSignal; nodeRPC is disconnected and set to  *)
(* nil.  A second Stop calls Disconnect through the nil nodeRPC.           *)
(***************************************************************************)
Stop(t) ==
    /\ Running
    /\ UNCHANGED solve
    /\ pc[t] = "idle"
    /\ nodeRPC
    /\ chainUpdateSignal' = [chainUpdateSignal EXCEPT !.stop = @ + 1]
    /\ nodeRPC' = FALSE
    /\ UNCHANGED <<ledger, keys, chainUpdates, chainMtx, rwMutex, chainSyncer, pc,
                   arg, ret, fault, history>>

Next ==
    \/ \E t \in Threads : IngestBlock_Lock(t)
    \/ \E t \in Threads : IngestBlock_Append(t)
    \/ \E t \in Threads : IngestBlock_Signal(t)
    \/ chainSyncer_Recv
    \/ chainSyncer_LockQueue
    \/ chainSyncer_Pop
    \/ chainSyncer_Lock
    \/ chainSyncer_EvalTx
    \/ chainSyncer_Store
    \/ \E t \in Threads : UnwindBlock_Lock(t)
    \/ \E t \in Threads : UnwindBlock_Created(t)
    \/ \E t \in Threads : UnwindBlock_Restore(t)
    \/ \E t \in Threads : GetBalance_RLock(t)
    \/ \E t \in Threads : GetBalance_RUnlock(t)
    \/ \E t \in Threads : ListUnspent_Lock(t)
    \/ \E t \in Threads : ListUnspent_Unlock(t)
    \/ \E t \in Threads : SyncedHeight_RLock(t)
    \/ \E t \in Threads : SyncedHeight_RUnlock(t)
    \/ \E t \in Threads : NewAddress_Lock(t)
    \/ \E t \in Threads : NewAddress_Return(t)
    \/ \E t \in Threads : NewAddress_Unlock(t)
    \/ \E t \in Threads : CreateTransaction_Lock(t)
    \/ \E t \in Threads : CreateTransaction_Return(t)
    \/ \E t \in Threads : UnlockOutputs_Lock(t)
    \/ \E t \in Threads : UnlockOutputs_Return(t)
    \/ \E t \in Threads : Stop(t)

Spec == Init /\ [][Next]_vars

(***************************************************************************)
(* A caller waiting in Sync while the node connects and disconnects        *)
(* blocks.  Towards the other threads Sync is a series of SyncedHeight     *)
(* calls, which Next already holds; here the call is followed as a whole.  *)
(***************************************************************************)
SyncNext ==
    \/ \E t \in Threads : IngestBlock_Lock(t)
    \/ \E t \in Threads : IngestBlock_Append(t)
    \/ \E t \in Threads : IngestBlock_Signal(t)
    \/ chainSyncer_Recv
    \/ chainSyncer_LockQueue
    \/ chainSyncer_Pop
    \/ chainSyncer_Lock
    \/ chainSyncer_EvalTx
    \/ chainSyncer_Store
    \/ \E t \in Threads : UnwindBlock_Lock(t)
    \/ \E t \in Threads : UnwindBlock_Created(t)
    \/ \E t \in Threads : UnwindBlock_Restore(t)
    \/ \E t \in Threads : Sync_Poll(t)
    \/ \E t \in Threads : Sync_RLock(t)
    \/ \E t \in Threads : Sync_RUnlock(t)
    \/ \E t \in Threads : Stop(t)

SyncSpec == Init /\ [][SyncNext]_vars

(***************************************************************************)
(* The feed of blocks under fair scheduling.  Every goroutine that can     *)
(* take a step takes it in the end; a goroutine blocked in Lock() gets the *)
(* lock in the end when it is released again and again (sync.Mutex hands   *)
(* the lock to a starving waiter).  A sync.RWMutex admits no new reader    *)
(* while a writer waits in Lock(): from the pop on, chainSyncer is that    *)
(* writer.                                                                 *)
(***************************************************************************)
\* wallet.RLock() while chainSyncer may be waiting in wallet.Lock()
GetBalance_RLockBehindWriter(t) ==
    /\ chainSyncer.pc # "lock"
    /\ GetBalance_RLock(t)

LiveNext ==
    \/ \E t \in Threads : IngestBlock_Lock(t)
    \/ \E t \in Threads : IngestBlock_Append(t)
    \/ \E t \in Threads : IngestBlock_Signal(t)
    \/ chainSyncer_Recv
    \/ chainSyncer_LockQueue
    \/ chainSyncer_Pop
    \/ chainSyncer_Lock
    \/ chainSyncer_EvalTx
    \/ chainSyncer_Store
    \/ \E t \in Threads : UnwindBlock_Lock(t)
    \/ \E t \in Threads : UnwindBlock_Created(t)
    \/ \E t \in Threads : UnwindBlock_Restore(t)
    \/ \E t \in Threads : GetBalance_RLockBehindWriter(t)
    \/ \E t \in Threads : GetBalance_RUnlock(t)
    \/ \E t \in Threads : ListUnspent_Lock(t)
    \/ \E t \in Threads : ListUnspent_Unlock(t)
    \/ \E t \in Threads : Stop(t)

LiveSpec ==
    /\ Init
    /\ [][LiveNext]_vars
    /\ \A t \in Threads : WF_vars(IngestBlock_Append(t))
    /\ \A t \in Threads : WF_vars(IngestBlock_Signal(t))
    /\ \A t \in Threads : WF_vars(UnwindBlock_Created(t))
    /\ \A t \in Threads : WF_vars(UnwindBlock_Restore(t))
    /\ \A t \in Threads : WF_vars(GetBalance_RUnlock(t))
    /\ \A t \in Threads : WF_vars(ListUnspent_Unlock(t))
    /\ WF_vars(chainSyncer_Recv)
    /\ SF_vars(chainSyncer_LockQueue)
    /\ WF_vars(chainSyncer_Pop)
    /\ SF_vars(chainSyncer_Lock)
    /\ WF_vars(chainSyncer_EvalTx)
    /\ WF_vars(chainSyncer_Store)

(***************************************************************************)
(* solveBlock (package dcrharness): numCores solver goroutines scan        *)
(* disjoint nonce ranges and send their results on the unbuffered channel  *)
(* results; the caller receives up to numCores results and closes quit on  *)
(* the first success.  Nonces are unsigned words of NonceBits bits; which  *)
(* nonces hash at or below the target is a property of the header, given   *)
(* here as the set solve.solutions.                                        *)
(***************************************************************************)
\* Width of the nonce word (32 in the source).
NonceBits == 2
\* runtime.NumCPU() is between 1 and MaxCores.
MaxCores == 2

\* math.MaxUint32 at the width of the model.
MaxNonce == 2^NonceBits - 1

Nonces == 0..MaxNonce

\* Unsigned arithmetic wraps around.
Wrap(n) == n % (MaxNonce + 1)

\* noncesPerCore := (stopNonce - startNonce) / numCores
noncesPerCore(numCores) == MaxNonce \div numCores

\* rangeStart := startNonce + (noncesPerCore * i)
rangeStart(i, numCores) == Wrap(noncesPerCore(numCores) * i)

\* A split of the nonces that gives the last solver no remainder.
rangeStopEven(i, numCores) == Wrap(noncesPerCore(numCores) * (i + 1) - 1)

\* rangeStop := startNonce + (noncesPerCore * (i + 1)) - 1
\* if i == numCores-1 { rangeStop = stopNonce }
rangeStop(i, numCores) ==
    IF i = numCores - 1 THEN MaxNonce
    ELSE Wrap(noncesPerCore(numCores) * (i + 1) - 1)

\* go solver(*header, rangeStart, rangeStop) for every i < numCores
Spawned(numCores, solutions) ==
    [main |-> "collect", numCores |-> numCores, solutions |-> solutions,
     received |-> 0, quit |-> FALSE, nonce |-> 0, found |-> FALSE,
     solvers |-> [k \in 0..(numCores - 1) |->
                    [pc |-> "loop", i |-> rangeStart(k, numCores),
                     startNonce |-> rangeStart(k, numCores),
                     stopNonce |-> rangeStop(k, numCores)]]]

SolveInit ==
    /\ WalletInit
    /\ \E numCores \in 1..MaxCores, solutions \in SUBSET Nonces :
          solve = Spawned(numCores, solutions)

\* One turn of the solver's loop: the loop condition, the select on quit and
\* the test of the nonce.
Solver_Step(k) ==
    /\ solve.main # "idle"
    /\ k \in DOMAIN solve.solvers
    /\ solve.solvers[k].pc = "loop"
    /\ LET sv == solve.solvers[k]
       IN solve' =
            [solve EXCEPT !.solvers[k] =
                IF ~(sv.i >= sv.startNonce /\ sv.i <= sv.stopNonce)
                THEN [sv EXCEPT !.pc = "sendNone"]
                ELSE IF solve.quit
                THEN [sv EXCEPT !.pc = "returned"]
                ELSE IF sv.i \in solve.solutions
                THEN [sv EXCEPT !.pc = "sendFound"]
                ELSE [sv EXCEPT !.i = Wrap(sv.i + 1)]]
    /\ UNCHANGED walletVars

\* case <-quit: return, in either select around a send on results
Solver_Quit(k) ==
    /\ solve.main # "idle"
    /\ k \in DOMAIN solve.solvers
    /\ solve.solvers[k].pc \in {"sendFound", "sendNone"}
    /\ solve.quit
    /\ solve' = [solve EXCEPT !.solvers[k].pc = "returned"]
    /\ UNCHANGED walletVars

\* result := <-results, from solver k; the first success closes quit, sets
\* header.Nonce and returns true, the numCores-th failure returns false.
Main_Recv(k) ==
    /\ solve.main = "collect"
    /\ k \in DOMAIN solve.solvers
    /\ solve.solvers[k].pc \in {"sendFound", "sendNone"}
    /\ solve' =
         IF solve.solvers[k].pc = "sendFound"
         THEN [solve EXCEPT !.solvers[k].pc = "returned", !.quit = TRUE,
                            !.nonce = solve.solvers[k].i, !.found = TRUE,
                            !.main = "done"]
         ELSE [solve EXCEPT !.solvers[k].pc = "returned",
                            !.received = @ + 1,
                            !.main = IF solve.received + 1 = solve.numCores
                                     THEN "done" ELSE "collect"]
    /\ UNCHANGED walletVars

SolveNext ==
    \/ \E k \in 0..(MaxCores - 1) : Solver_Step(k)
    \/ \E k \in 0..(MaxCores - 1) : Solver_Quit(k)
    \/ \E k \in 0..(MaxCores - 1) : Main_Recv(k)

\* Every goroutine that can run is scheduled in the end.
SolveSpec ==
    /\ SolveInit
    /\ [][SolveNext]_vars
    /\ \A k \in 0..(MaxCores - 1) : WF_vars(Solver_Step(k))
    /\ \A k \in 0..(MaxCores - 1) : WF_vars(Solver_Quit(k))
    /\ WF_vars(\E k \in 0..(MaxCores - 1) : Main_Recv(k))

(***************************************************************************)
(* Properties of the ledger.                                               *)
(***************************************************************************)
InUnwind(t) == pc[t] \in {"UnwindBlock_locked", "UnwindBlock_restore"}

InRead(t) == pc[t] \in {"GetBalance_read", "ListUnspent_read", "SyncedHeight_read"}

LiveEntries == {i \in DOMAIN appliedLog : appliedLog[i].live}

\* C1: applying a block to an output set S and then reversing the same block
\* yields exactly S again.
ApplyThenReverseIsIdentity ==
    snap.phase = "unwound" => utxos = snap.utxos

\* C2: updates are applied in exactly the order in which they were enqueued,
\* whichever producer enqueued them and however the signals interleave.
FIFOOrdering ==
    /\ Len(appliedLog) <= Len(enqueuedLog)
    /\ \A i \in DOMAIN appliedLog : appliedLog[i].update = enqueuedLog[i].update

\* Two producers enqueued different updates; the first one has been applied
\* although its own producer has not signalled yet.
FIFOOrderingReached ==
    /\ Len(enqueuedLog) = 2
    /\ enqueuedLog[1].by # enqueuedLog[2].by
    /\ enqueuedLog[1].update # enqueuedLog[2].update
    /\ Len(appliedLog) = 1
    /\ pc[enqueuedLog[1].by] = "IngestBlock_signal"

\* C3: a read of the balance, the unspent list or the synced height never
\* overlaps an apply or a reverse in progress, and so never sees the height
\* of a block without that block's undo entry.
NoPartialRead ==
    \A t \in Threads :
        InRead(t) =>
            /\ chainSyncer.pc # "apply"
            /\ \A u \in Threads \ {t} : ~InUnwind(u)
            /\ rwMutex.writer \in {NoHolder, Thread(t)}
            /\ \A i \in LiveEntries :
                  appliedLog[i].update.blockHeight \in DOMAIN reorgJournal
            /\ pc[t] = "GetBalance_read" =>
                  ret[t].value = GetBalance(utxos, currentHeight)
            /\ pc[t] = "ListUnspent_read" =>
                  ret[t].list = ListUnspent(utxos, currentHeight)
            /\ pc[t] = "SyncedHeight_read" => ret[t].value = currentHeight

\* A reader holds the lock after one block was applied while chainSyncer waits
\* for the lock with the next block.
NoPartialReadReached ==
    \E t \in Threads :
        /\ InRead(t)
        /\ chainSyncer.pc = "lock"
        /\ Len(appliedLog) = 1
        /\ rwMutex.writer = NoHolder

\* C4: whenever no apply or reverse is in progress, the undo journal holds an
\* entry for a height exactly when a block at that height has been applied
\* and not disconnected since.
UndoJournalInvariant ==
    rwMutex.writer = NoHolder =>
        DOMAIN reorgJournal =
            {appliedLog[i].update.blockHeight : i \in LiveEntries}

\* One block is applied and still connected, another has been disconnected.
UndoJournalReached ==
    /\ rwMutex.writer = NoHolder
    /\ LiveEntries # {}
    /\ \E i \in DOMAIN appliedLog : ~appliedLog[i].live
    /\ reorgJournal # EmptyMap

Pays(output, a) ==
    \E k \in DOMAIN a : ScriptAddress(a[k]) \in output.PkScript

CreatedBy(entry) ==
    UNION {{OutPoint(tx.TxHash, i - 1) :
                i \in {j \in DOMAIN tx.TxOut : Pays(tx.TxOut[j], entry.addrs)}} :
           tx \in Range(entry.update.filteredTxns)}

ConsumedBy(entry) ==
    UNION {{txIn.PreviousOutPoint : txIn \in Range(tx.TxIn)} :
           tx \in Range(entry.update.filteredTxns)}

\* C5: whenever no apply or reverse is in progress, the output record holds
\* exactly the outputs that pay a wallet address, were created by a block
\* applied and not disconnected since, and were not consumed by such a block.
OutputRecordInvariant ==
    rwMutex.writer = NoHolder =>
        DOMAIN utxos =
            UNION {CreatedBy(appliedLog[i]) : i \in LiveEntries} \
                UNION {ConsumedBy(appliedLog[i]) : i \in LiveEntries}

Spendable(op) ==
    ~utxos[op].isLocked /\ isMature(utxos[op], currentHeight)

OthersValue(op) ==
    SumValues(utxos, {x \in DOMAIN utxos \ {op} : Spendable(x)})

OthersBag(op) ==
    BagOfValues(utxos, {x \in DOMAIN utxos \ {op} : Spendable(x)})

\* The reads of thread t count the output op.
Counts(t, op) ==
    /\ pc[t] = "GetBalance_read" =>
          ret[t].value = OthersValue(op) + utxos[op].value
    /\ pc[t] = "ListUnspent_read" =>
          ret[t].list = OthersBag(op) (+) SetToBag({utxos[op].value})

\* The reads of thread t leave the output op out.
Omits(t, op) ==
    /\ pc[t] = "GetBalance_read" => ret[t].value = OthersValue(op)
    /\ pc[t] = "ListUnspent_read" => ret[t].list = OthersBag(op)

\* C6: a coinbase output created by a block at height H matures at
\* M = H + CoinbaseMaturity; while it is unlocked, the balance and the
\* unspent list leave it out at every height below M and count it at every
\* height from M on, so that the height alone decides.
MaturityGating ==
    \A op \in DOMAIN utxos :
        utxos[op].maturityHeight > 0 =>
            /\ \E i \in DOMAIN appliedLog :
                  /\ utxos[op].maturityHeight =
                        appliedLog[i].update.blockHeight + CoinbaseMaturity
                  /\ \E tx \in Range(appliedLog[i].update.filteredTxns) :
                        tx.isCoinbase /\ tx.TxHash = op.Hash
            /\ ~utxos[op].isLocked =>
                  \A t \in Threads :
                      IF currentHeight < utxos[op].maturityHeight
                      THEN Omits(t, op)
                      ELSE Counts(t, op)

\* A balance read counts a coinbase output that has matured.
MaturityGatingReached ==
    \E t \in Threads, op \in DOMAIN utxos :
        /\ pc[t] = "GetBalance_read"
        /\ utxos[op].maturityHeight > 0
        /\ ~utxos[op].isLocked
        /\ currentHeight >= utxos[op].maturityHeight
        /\ ret[t].value = utxos[op].value

\* C7: an output locked by a funding operation is left out of the balance and
\* of the unspent list; an output named by UnlockOutputs is unlocked, and the
\* next read counts it again if it is mature and still in the ledger.
LockExclusion ==
    /\ \A op \in DOMAIN utxos :
          utxos[op].isLocked => \A t \in Threads : Omits(t, op)
    /\ \A op \in released \cap DOMAIN utxos :
          /\ ~utxos[op].isLocked
          /\ isMature(utxos[op], currentHeight) =>
                \A t \in Threads : Counts(t, op)

\* A balance read counts an output that was locked and has just been
\* unlocked.
LockExclusionReached ==
    \E t \in Threads, op \in released \cap DOMAIN utxos :
        /\ pc[t] = "GetBalance_read"
        /\ isMature(utxos[op], currentHeight)
        /\ ret[t].value >= utxos[op].value
        /\ ret[t].value > 0

\* C8: disconnecting a height that has no undo entry ends in a fatal error
\* and changes neither the output record, nor the journal, nor the height.
DisconnectRejection ==
    [][\A t \in Threads :
          (/\ pc[t] = "UnwindBlock_locked"
           /\ pc'[t] # pc[t]
           /\ arg[t].height \notin DOMAIN reorgJournal)
          => /\ fault' # NoFault
             /\ pc'[t] = "panicked"
             /\ utxos' = utxos
             /\ reorgJournal' = reorgJournal
             /\ currentHeight' = currentHeight]_vars

\* A height that was applied and disconnected once is disconnected again.
DisconnectRejectionReached ==
    \E t \in Threads :
        /\ pc[t] = "panicked"
        /\ fault = "UnwindBlock: nil pointer dereference"
        /\ \E i \in DOMAIN appliedLog :
              /\ appliedLog[i].update.blockHeight = arg[t].height
              /\ ~appliedLog[i].live

\* C9: the synced height is the height of the most recently applied block
\* and goes back to its previous value when that block is disconnected.
HeightRestoredByDisconnect ==
    /\ snap.phase = "applied" => currentHeight = snap.blockHeight
    /\ snap.phase = "unwound" => currentHeight = snap.currentHeight

\* C10: once a block at height H that spends a tracked output is applied, the
\* output is gone from the record and the undo entry of H holds its record;
\* once H is disconnected the output is back with the same value, maturity
\* height and key index.
SpendAndRestore ==
    /\ (snap.phase = "applied" /\ chainSyncer.pc # "apply") =>
          \A op \in DOMAIN snap.spent :
              /\ op \notin DOMAIN utxos
              /\ snap.blockHeight \in DOMAIN reorgJournal
              /\ op \in DOMAIN reorgJournal[snap.blockHeight].utxosDestroyed
              /\ reorgJournal[snap.blockHeight].utxosDestroyed[op] = snap.spent[op]
    /\ snap.phase = "unwound" =>
          \A op \in DOMAIN snap.spent :
              /\ op \in DOMAIN utxos
              /\ utxos[op].value = snap.spent[op].value
              /\ utxos[op].maturityHeight = snap.spent[op].maturityHeight
              /\ utxos[op].keyIndex = snap.spent[op].keyIndex

\* A block that spent an output tracked before the block has been applied
\* and then disconnected.
SpendAndRestoreReached ==
    /\ snap.phase = "unwound"
    /\ \E op \in DOMAIN snap.spent : op \in DOMAIN snap.utxos


\* C11: right after UnwindBlock(H) has returned, no outpoint that the block
\* applied at H created is left in wallet.utxos, whatever else the block's
\* transactions did.
NoOutputOfDisconnectedBlock ==
    snap.phase = "unwound" =>
        \A op \in CreatedBy(appliedLog[Len(appliedLog)]) : op \notin DOMAIN utxos

\* C12: the value Sync(desiredHeight) returns is at least desiredHeight.
SyncReturnsAtLeastDesired ==
    \A t \in Threads :
        pc[t] = "Sync_read" => ret[t].value >= arg[t].height

\* C13: over any run of successful and failed NewAddress calls the issued
\* addresses have distinct indexes, the registered indexes are exactly
\* 0 .. hdIndex-1 without a gap, hdIndex never decreases and an index once
\* issued keeps its address.
AddressIndexInvariant ==
    /\ [](/\ DOMAIN addrs = 0..(hdIndex - 1)
          /\ \A i, j \in DOMAIN addrs : i # j => addrs[i] # addrs[j])
    /\ [][/\ hdIndex' >= hdIndex
          /\ \A i \in DOMAIN addrs : i \in DOMAIN addrs' /\ addrs'[i] = addrs[i]]_vars

\* A call fails after an earlier call has issued index 1.
AddressIndexReached ==
    \E t \in Threads :
        /\ pc[t] = "NewAddress_unlock"
        /\ ret[t].err
        /\ hdIndex = 2
        /\ DOMAIN addrs = {0, 1}

UpdatesOf(log) == [i \in DOMAIN log |-> log[i].update]

\* The update chainSyncer has popped and not yet begun to apply.
HeldUpdate ==
    IF chainSyncer.pc = "lock" THEN <<chainSyncer.update>> ELSE <<>>

\* The work signals sent or about to be sent and not yet acted on.
OutstandingSignals ==
    chainUpdateSignal.work
        + Cardinality({t \in Threads : pc[t] = "IngestBlock_signal"})
        + (IF chainSyncer.pc \in {"lockQueue", "pop"} THEN 1 ELSE 0)

\* C14: every update appended by IngestBlock is at any time either still
\* queued, or popped and held by chainSyncer, or applied, in the order of the
\* appends and never in two of these places; while chainSyncer has not left
\* its loop every queued update has exactly one signal outstanding, so that
\* it is popped once.
ExactlyOnceConsumption ==
    /\ UpdatesOf(enqueuedLog) = UpdatesOf(appliedLog) \o HeldUpdate \o chainUpdates
    /\ chainSyncer.pc # "done" => Len(chainUpdates) = OutstandingSignals

\* Two updates were appended and both are applied; no stop was sent.
ExactlyOnceReached ==
    /\ Len(enqueuedLog) = 2
    /\ Len(appliedLog) = 2
    /\ chainUpdates = <<>>
    /\ chainSyncer.pc = "recv"
    /\ rwMutex.writer = NoHolder
    /\ nodeRPC

\* Stop has sent the stop signal and chainSyncer has received it.
StopReceived == ~nodeRPC /\ chainUpdateSignal.stop = 0

\* C15: once chainSyncer has received the stop signal it has left its loop,
\* and from then on nothing is popped from the queue and no block is
\* applied: currentHeight keeps its value, the journal gains no entry and
\* chainUpdates only grows, whatever is queued and whatever work signals are
\* still outstanding.
ShutdownDoesNotDrain ==
    /\ [](StopReceived => chainSyncer.pc = "done" /\ rwMutex.writer # Syncer)
    /\ [][StopReceived =>
            /\ chainSyncer' = chainSyncer
            /\ UpdatesOf(appliedLog') = UpdatesOf(appliedLog)
            /\ currentHeight' = currentHeight
            /\ DOMAIN reorgJournal' \subseteq DOMAIN reorgJournal
            /\ Len(chainUpdates') >= Len(chainUpdates)
            /\ SubSeq(chainUpdates', 1, Len(chainUpdates)) = chainUpdates]_vars

\* The stop signal overtook a work signal: chainSyncer has left its loop
\* with one update queued and its signal unreceived, and a further update
\* is appended afterwards.
ShutdownReached ==
    /\ StopReceived
    /\ chainSyncer.pc = "done"
    /\ Len(chainUpdates) = 2
    /\ chainUpdateSignal.work = 2
    /\ appliedLog = <<>>

InIngestBlock(t) == pc[t] \in {"IngestBlock_append", "IngestBlock_signal"}

\* C16: IngestBlock never waits on the ledger.  Whatever holds the ledger
\* lock and wherever chainSyncer stands, a caller can enter IngestBlock as
\* soon as chainMtx is free, append and launch the signal; the calling thread
\* never holds the ledger lock, and chainSyncer, the only other user of
\* chainMtx, gives it back without waiting for the ledger.
IntakeNeverWaitsOnLedger ==
    Running =>
        /\ \A t \in Threads :
              /\ (/\ pc[t] = "idle"
                  /\ chainMtx = NoHolder
                  /\ Len(enqueuedLog) < MaxUpdates)
                    => ENABLED IngestBlock_Lock(t)
              /\ pc[t] = "IngestBlock_append" =>
                    chainMtx = Thread(t) /\ ENABLED IngestBlock_Append(t)
              /\ pc[t] = "IngestBlock_signal" => ENABLED IngestBlock_Signal(t)
              /\ InIngestBlock(t) =>
                    rwMutex.writer # Thread(t) /\ t \notin rwMutex.readers
        /\ chainMtx = Syncer =>
              chainSyncer.pc = "pop" /\ ENABLED chainSyncer_Pop

\* One thread is inside IngestBlock while another holds the ledger lock in
\* UnwindBlock and chainSyncer waits for that lock.
IntakeReached ==
    \E t, u \in Threads :
        /\ pc[t] = "IngestBlock_append"
        /\ pc[u] = "UnwindBlock_locked"
        /\ chainSyncer.pc = "lock"

InLedgerRead(t) == pc[t] \in {"GetBalance_read", "ListUnspent_read"}

\* C17: GetBalance and ListUnspent take the ledger lock in shared mode: while
\* one thread is inside either read another thread can enter either read,
\* and no read overlaps an apply, a reverse or NewAddress.
ReadsShareTheLock ==
    Running =>
        \A t \in Threads :
            InLedgerRead(t) =>
                /\ chainSyncer.pc # "apply"
                /\ \A u \in Threads \ {t} :
                      /\ ~InUnwind(u)
                      /\ pc[u] \notin {"NewAddress_locked", "NewAddress_unlock"}
                      /\ pc[u] = "idle" =>
                            /\ ENABLED GetBalance_RLock(u)
                            /\ ENABLED ListUnspent_Lock(u)

\* C20: a NewAddress that returns an error leaves hdIndex and addrs exactly
\* as they were when it was called, and the index it tried is the index the
\* next call is offered; a NewAddress that succeeds registers that index.
FailedIssuanceChangesNothing ==
    /\ [](\A t \in Threads :
            (pc[t] = "NewAddress_unlock" /\ ret[t].err)
                => ret[t].value = hdIndex)
    /\ [][\A t \in Threads :
            (pc[t] = "NewAddress_locked" /\ pc'[t] = "NewAddress_unlock")
                => IF ret'[t].err
                   THEN hdIndex' = hdIndex /\ addrs' = addrs
                   ELSE /\ hdIndex' = hdIndex + 1
                        /\ DOMAIN addrs' = DOMAIN addrs \cup {hdIndex}]_vars

\* The first NewAddress of the wallet has failed and is about to return its
\* error under the lock; index 1 is still the next index.
FailedIssuanceReached ==
    \E t \in Threads :
        /\ pc[t] = "NewAddress_unlock"
        /\ ret[t].err
        /\ ret[t].value = 1
        /\ hdIndex = 1
        /\ DOMAIN addrs = {0}
        /\ rwMutex.writer = Thread(t)

(***************************************************************************)
(* Properties of solveBlock.                                               *)
(***************************************************************************)
\* C18: when no nonce hashes at or below the target, solveBlock ends and
\* returns false, for every number of solvers from 1 on.
SolveBlockReturnsFalse ==
    (solve.main = "collect" /\ solve.solutions = {})
        ~> (solve.main = "done" /\ ~solve.found)

\* The nonces the solvers were given.
Covered ==
    UNION {solve.solvers[k].startNonce .. solve.solvers[k].stopNonce :
           k \in DOMAIN solve.solvers}

\* C19: when solveBlock returns true, header.Nonce is a nonce whose hash is
\* at or below the target; the ranges of the solvers cover every nonce, and
\* when some nonce meets the target solveBlock returns true and never false.
SolveBlockSoundAndComplete ==
    /\ [](solve.main # "idle" => Covered = Nonces)
    /\ [](solve.main = "done" =>
            /\ solve.found => solve.nonce \in solve.solutions
            /\ ~solve.found => solve.solutions = {})
    /\ (solve.main = "collect" /\ solve.solutions # {})
          ~> (solve.main = "done" /\ solve.found)

\* Two solvers: the first reported no solution, the second found the highest
\* nonce, which lies in the remainder its range was extended by.
SolveBlockReached ==
    /\ solve.main = "done"
    /\ solve.found
    /\ solve.numCores = 2
    /\ solve.received = 1
    /\ solve.nonce = MaxNonce
    /\ solve.solutions = {MaxNonce}

(***************************************************************************)
(* Properties of the feed of blocks.                                       *)
(***************************************************************************)
\* The transaction chainSyncer is about to evaluate.
CurrentTx == chainSyncer.update.filteredTxns[chainSyncer.tx]

InputsOf(tx) == {txIn.PreviousOutPoint : txIn \in Range(tx.TxIn)}

NoContiguityCheck ==
    [][/\ (chainSyncer.pc = "pop" /\ chainSyncer' # chainSyncer) =>
             /\ chainSyncer'.pc = "lock"
             /\ chainSyncer'.update = Head(chainUpdates)
             /\ chainUpdates' = Tail(chainUpdates)
       /\ (chainSyncer.pc = "lock" /\ chainSyncer' # chainSyncer) =>
             /\ chainSyncer'.pc = "apply"
             /\ chainSyncer'.update = chainSyncer.update
             /\ currentHeight' = chainSyncer.update.blockHeight
             /\ chainUpdates' = chainUpdates
       /\ (chainSyncer.pc = "apply" /\ chainSyncer'.pc # "apply") =>
             /\ chainSyncer'.pc = "recv"
             /\ currentHeight' = chainSyncer.update.blockHeight
             /\ chainSyncer.update.blockHeight \in DOMAIN reorgJournal'
             /\ reorgJournal'[chainSyncer.update.blockHeight] = chainSyncer.undo
             /\ chainUpdates' = chainUpdates
             /\ fault' = NoFault]_vars

\* The first block applied was at height 2, a gap after height 0; the second
\* was at the lower height 1.  Both have their undo entry and the synced
\* height is 1.
NoContiguityReached ==
    /\ Len(appliedLog) = 2
    /\ appliedLog[1].update.blockHeight = 2
    /\ appliedLog[2].update.blockHeight = 1
    /\ chainSyncer.pc = "recv"
    /\ currentHeight = 1
    /\ DOMAIN reorgJournal = {1, 2}

\* Thread t is in UnwindBlock(H) after the same thread has returned from the
\* one IngestBlock of a block at height H, and H was not disconnected
\* before.
DisconnectsAfterConnect(t) ==
    /\ pc[t] = "UnwindBlock_locked"
    /\ Cardinality({i \in DOMAIN enqueuedLog :
                       enqueuedLog[i].update.blockHeight = arg[t].height}) = 1
    /\ \A i \in DOMAIN enqueuedLog :
          enqueuedLog[i].update.blockHeight = arg[t].height =>
              enqueuedLog[i].by = t
    /\ \A i \in DOMAIN appliedLog :
          appliedLog[i].update.blockHeight = arg[t].height => appliedLog[i].live

\* C23: when the block at height H is disconnected after IngestBlock has
\* returned for it, UnwindBlock runs after chainSyncer has applied the
\* update of H and finds the undo entry of H.
DisconnectFindsUndoEntry ==
    \A t \in Threads :
        DisconnectsAfterConnect(t) =>
            /\ arg[t].height \in DOMAIN reorgJournal
            /\ \E i \in DOMAIN appliedLog :
                  appliedLog[i].update.blockHeight = arg[t].height

\* The work signals chainSyncer has received so far.
WorkSignalsReceived ==
    Len(appliedLog)
        + (IF chainSyncer.pc \in {"lockQueue", "pop", "lock"} THEN 1 ELSE 0)

\* C24: whenever chainSyncer has received a work signal and goes to pop,
\* chainUpdates holds at least one update, so that chainUpdates[0] is never
\* out of range: the work signals received never exceed the updates
\* appended, however the IngestBlock calls, their signals and Stop
\* interleave.
QueueNeverEmptyAtPop ==
    /\ chainSyncer.pc \in {"lockQueue", "pop"} => Len(chainUpdates) >= 1
    /\ WorkSignalsReceived <= Len(enqueuedLog)
    /\ fault # "chainSyncer: index out of range"

\* Stop was called with its stop signal still unreceived; chainSyncer took
\* the work signal of the second update instead and is about to pop it.
QueueNeverEmptyReached ==
    /\ chainSyncer.pc = "pop"
    /\ Len(chainUpdates) = 1
    /\ Len(appliedLog) = 1
    /\ ~nodeRPC
    /\ chainUpdateSignal.stop = 1

\* The steps a caller thread takes after the step that acquired its lock.
Proceed(t) ==
    \/ IngestBlock_Append(t)
    \/ UnwindBlock_Created(t)
    \/ UnwindBlock_Restore(t)
    \/ GetBalance_RUnlock(t)
    \/ ListUnspent_Unlock(t)
    \/ SyncedHeight_RUnlock(t)
    \/ NewAddress_Return(t)
    \/ NewAddress_Unlock(t)
    \/ CreateTransaction_Return(t)
    \/ UnlockOutputs_Return(t)

\* The steps of chainSyncer under one of the locks.
ProceedSyncer == chainSyncer_Pop \/ chainSyncer_EvalTx \/ chainSyncer_Store

HoldsLedgerLock(t) == rwMutex.writer = Thread(t) \/ t \in rwMutex.readers

\* C25: the queue lock and the ledger lock are never held by the same
\* thread or goroutine at the same time, and while the process runs every
\* holder of either lock can take its next step towards releasing it,
\* whatever the other lock's holder is doing.
LocksNeverNested ==
    /\ chainMtx # NoHolder => rwMutex.writer # chainMtx
    /\ \A t \in Threads : ~(chainMtx = Thread(t) /\ HoldsLedgerLock(t))
    /\ Running =>
          /\ \A t \in Threads :
                (chainMtx = Thread(t) \/ HoldsLedgerLock(t)) => ENABLED Proceed(t)
          /\ (chainMtx = Syncer \/ rwMutex.writer = Syncer) => ENABLED ProceedSyncer

\* chainSyncer holds the queue lock for a pop while a caller holds the
\* ledger lock in ListUnspent.
LocksNeverNestedReached ==
    /\ chainMtx = Syncer
    /\ chainSyncer.pc = "pop"
    /\ \E t \in Threads :
          rwMutex.writer = Thread(t) /\ pc[t] = "ListUnspent_read"

\* Every update appended so far is applied, nothing is queued or held, and
\* the synced height is the height of the update appended last.
Drained ==
    /\ chainUpdates = <<>>
    /\ chainSyncer.pc = "recv"
    /\ rwMutex.writer # Syncer
    /\ UpdatesOf(appliedLog) = UpdatesOf(enqueuedLog)
    /\ enqueuedLog # <<>> =>
          currentHeight = enqueuedLog[Len(enqueuedLog)].update.blockHeight

\* C26: under fair scheduling, when Stop is never called and nothing
\* panics, every update appended by IngestBlock is applied in the end, and
\* unless a further update is appended the queue is empty in the end with
\* currentHeight at the height of the update appended last.
EveryUpdateEventuallyApplied ==
    ([]nodeRPC /\ []Running) =>
        /\ \A i \in 1..MaxUpdates :
              (Len(enqueuedLog) >= i)
                  ~> (/\ Len(appliedLog) >= i
                      /\ appliedLog[i].update = enqueuedLog[i].update
                      /\ (chainSyncer.pc = "apply" => Len(appliedLog) > i))
        /\ \A n \in 1..MaxUpdates :
              (Len(enqueuedLog) = n) ~> (Len(enqueuedLog) > n \/ Drained)

\* Two updates were appended while a caller held the ledger lock in
\* ListUnspent; both are applied and the synced height is the second one's.
EveryUpdateAppliedReached ==
    /\ Drained
    /\ Len(enqueuedLog) = 2
    /\ enqueuedLog[1].update.blockHeight # enqueuedLog[2].update.blockHeight
    /\ nodeRPC
    /\ Running
    /\ \E t \in Threads : pc[t] = "ListUnspent_read"

====
